---- MODULE Spec2Model ----
(***************************************************************************)
(* Model of package keys of go-keys: the SineWave stream (NewSineWave and  *)
(* SineWave.Read), an io.Reader that produces the PCM bytes of a sine tone *)
(* in chunks of whatever size the audio driver asks for.                   *)
(*                                                                         *)
(* Bytes are the integers 0..255.  time.Duration values are counted in     *)
(* milliseconds (Second = 1000 ticks instead of 10^9 nanoseconds) so that  *)
(* the products of NewSineWave stay within TLC's integers; the quotient    *)
(* duration / time.Second and its truncation are unchanged by the unit.    *)
(***************************************************************************)
EXTENDS Integers, Sequences, FiniteSets, TLC

VARIABLES
    sampleRate,     \* the value of the flag *sampleRate
    duration,       \* the duration NewSineWave was called with
    freq,           \* SineWave.freq
    length,         \* SineWave.length
    pos,            \* SineWave.pos
    channelCount,   \* SineWave.channelCount, equal to the flag *channelCount
    format,         \* SineWave.format
    remaining,      \* SineWave.remaining
    out,            \* every byte the Read calls have delivered so far, in order
    lastBuf,        \* len(buf) of the latest Read call (0 before the first)
    lastPos,        \* s.pos when the latest Read call started
    lastRem,        \* len(s.remaining) when the latest Read call started
    lastN,          \* the byte count the latest Read returned
    lastErr,        \* its error: "none" before the first call, "nil", "EOF", "panic"
    eofSeen,        \* some Read has returned io.EOF
    eofBefore,      \* some Read had returned io.EOF before the latest Read call
    calls,          \* the Read calls made, up to and including the first that returned io.EOF
    NoteCount,      \* the global keys.NoteCount
    mainPc,         \* where main's event loop is: "wait", "store", "dispatch", "exited", "panicked"
    event,          \* the key event main is handling: "none", "note", "other", "esc", "err"
    mainTmp,        \* the value main loaded for NoteCount++
    events,         \* the key events received so far
    gPc,            \* per note goroutine of Run: "idle", "play", "envelope", "lock", "unlock", "load", "store"
    gRead,          \* per note goroutine: the NoteCount it read for initialVolume, or "none"
    gTmp,           \* per note goroutine: the value it loaded for NoteCount--
    m,              \* per call of Run: its mutex m is locked
    players,        \* per call of Run: the length of its players slice
    incs,           \* the NoteCount++ completed
    decs            \* the NoteCount-- completed

\* the variables of one stream and of its consumer
streamVars == <<sampleRate, duration, freq, length, pos, channelCount, format,
                remaining, out, lastBuf, lastPos, lastRem, lastN, lastErr, eofSeen,
                eofBefore, calls>>

\* the variables of the key-event loop and of the note goroutines
noteVars == <<NoteCount, mainPc, event, mainTmp, events, gPc, gRead, gTmp, m,
              players, incs, decs>>

vars == <<streamVars, noteVars>>

(***************************************************************************)
(* Bounds of the model.                                                    *)
(***************************************************************************)
\* the caller's buffers have 1..MaxBuf bytes, or the stream's whole length,
\* or one byte more than that
MaxBuf == 5

SampleRates == {12}
Freqs == {1, 2}
ChannelCounts == {1, 2, 3}
Formats == {"u8", "s16le", "f32le"}
\* durations in milliseconds: negative, zero, fractions of a second
Durations == {-1000, -250, 0, 100, 250}
\* what the caller's buffer holds before Read writes to it
StaleBytes == {0, 170}

Second == 1000

(***************************************************************************)
(* Go's arithmetic.                                                        *)
(***************************************************************************)
\* Go's integer division truncates toward zero
GoDiv(a, b) == IF a >= 0 THEN a \div b ELSE -((-a) \div b)

Min(a, b) == IF a < b THEN a ELSE b

\* CopyCount one byte short
CopyCountShort(dstLen, srcLen) == Min(dstLen, srcLen) - 1

\* copy(dst, src) copies min(len(dst), len(src)) bytes and returns that count
CopyCount(dstLen, srcLen) == Min(dstLen, srcLen)

(***************************************************************************)
(* formatByteLength and NewSineWave.                                       *)
(***************************************************************************)
formatByteLength(fmt) ==
    CASE fmt = "f32le" -> 4
      [] fmt = "u8"    -> 1
      [] fmt = "s16le" -> 2

\* NewSineWaveLength without l = l / 4 * 4
NewSineWaveLengthUnaligned(ch, fmt, sr, dur) ==
    GoDiv(ch * formatByteLength(fmt) * sr * dur, Second)

\* l := channelCount * formatByteLength * sampleRate * duration / time.Second
\* l = l / 4 * 4
NewSineWaveLength(ch, fmt, sr, dur) ==
    LET l == GoDiv(ch * formatByteLength(fmt) * sr * dur, Second)
    IN  GoDiv(l, 4) * 4

(***************************************************************************)
(* The samples.  TLC has no floating point, so the value the code computes *)
(* from math.Sin for frame p is tabulated, per format, for the two periods *)
(* length = sampleRate / freq of the model (12 and 6 frames) and the frame *)
(* positions p = 0..15; entry p + 1 is the value for frame p.              *)
(***************************************************************************)
\* length := float64(*sampleRate) / float64(s.freq)
Period(sr, f) == sr \div f

\* b := int(math.Sin(2*math.Pi*float64(p)/length) * 0.3 * 127)
SinU8 ==
    (12 :> <<0, 19, 32, 38, 32, 19, 0, -19, -32, -38, -32, -19, 0, 19, 32, 38>>) @@
    (6  :> <<0, 32, 32, 0, -32, -32, 0, 32, 32, 0, -32, -32, 0, 32, 32, 0>>)

\* b := int16(math.Sin(2*math.Pi*float64(p)/length) * 0.3 * 32767)
SinS16 ==
    (12 :> <<0, 4915, 8513, 9830, 8513, 4915, 0, -4915,
             -8513, -9830, -8513, -4915, 0, 4915, 8513, 9830>>) @@
    (6  :> <<0, 8513, 8513, 0, -8513, -8513, 0, 8513,
             8513, 0, -8513, -8513, 0, 8513, 8513, 0>>)

\* bs := math.Float32bits(float32(math.Sin(2*math.Pi*float64(p)/length) * 0.3)),
\* as <<bs >> 16, bs & 0xffff>>.  At the zero crossings after p = 0 the sine
\* is a rounding residue (about 1e-16), not 0, and its bits are kept as they are.
SinF32 ==
    (12 :> << <<0, 0>>, <<15897, 39322>>, <<16005, 1409>>, <<16025, 39322>>,
              <<16005, 1409>>, <<15897, 39322>>, <<9257, 28220>>, <<48665, 39322>>,
              <<48773, 1409>>, <<48793, 39322>>, <<48773, 1409>>, <<48665, 39322>>,
              <<42153, 28220>>, <<15897, 39322>>, <<16005, 1409>>, <<16025, 39322>> >>) @@
    (6  :> << <<0, 0>>, <<16005, 1409>>, <<16005, 1409>>, <<9257, 28220>>,
              <<48773, 1409>>, <<48773, 1409>>, <<42153, 28220>>, <<16005, 1409>>,
              <<16005, 1409>>, <<9470, 9561>>, <<48773, 1409>>, <<48773, 1409>>,
              <<42281, 28220>>, <<16005, 1409>>, <<16005, 1409>>, <<9806, 35852>> >>)

\* the bytes of one channel slot of frame p, in the order the code stores them
SampleBytes(fmt, period, p) ==
    CASE fmt = "f32le" ->
            LET bs == SinF32[period][p + 1]
            IN  << bs[2] % 256, bs[2] \div 256, bs[1] % 256, bs[1] \div 256 >>
      [] fmt = "u8" ->
            LET b == SinU8[period][p + 1]
            IN  << (b + 128) % 256 >>
      [] fmt = "s16le" ->
            LET b == SinS16[period][p + 1]
            IN  << b % 256, (b \div 256) % 256 >>

(***************************************************************************)
(* SineWave.Read.  A stream s is the record of the SineWave fields plus    *)
(* the sample rate; n is len(buf) and fill the byte the caller's buffer    *)
(* holds in every position before the call.                                *)
(***************************************************************************)
\* num := formatByteLength(s.format) * s.channelCount
FrameSize(s) == formatByteLength(s.format) * s.channelCount

\* if len(s.remaining) > 0
HasRemaining(s) == Len(s.remaining) > 0

\* if s.pos == s.length
Exhausted(s) == s.pos = s.length

\* Truncates with >= for >
TruncatesAtFit(s, n) == s.pos + n >= s.length

\* if s.pos+int64(len(buf)) > s.length
Truncates(s, n) == s.pos + n > s.length

\* TruncLen one byte short
TruncLenShort(s) == s.length - s.pos - 1

\* buf = buf[:s.length-s.pos]
TruncLen(s) == s.length - s.pos

\* NeedsScratch never true: the caller's buffer always used as it is
NeedsScratchNever(n) == FALSE

\* if len(buf)%4 > 0
NeedsScratch(n) == (n % 4) > 0

\* ScratchLen without the - len(origBuf)%4
ScratchLenPlus4(n) == n + 4

\* make([]byte, len(origBuf)+4-len(origBuf)%4)
ScratchLen(n) == n + 4 - (n % 4)

\* the loops of lines 85-116: buf, of len bytes all equal to init, after the
\* frames i = 0 .. len/num - 1 have been written, frame i holding the sample of
\* position s.pos/num + i in each of its channelCount slots
Generate(s, len, init) ==
    LET num    == FrameSize(s)
        p      == GoDiv(s.pos, num)
        frames == GoDiv(len, num)
        bps    == formatByteLength(s.format)
    IN  [j \in 1..len |->
            IF j - 1 < num * frames
            THEN SampleBytes(s.format, Period(s.sampleRate, s.freq),
                             p + ((j - 1) \div num))[(((j - 1) % num) % bps) + 1]
            ELSE init]

\* ReadRemaining without the copy of line 60: the kept bytes are not shifted
ReadRemainingNoShift(s, n) ==
    LET c == CopyCount(n, Len(s.remaining))
    IN  [n |-> c, err |-> "nil", data |-> SubSeq(s.remaining, 1, c),
         pos |-> s.pos,
         remaining |-> SubSeq(s.remaining, 1, Len(s.remaining) - c)]

\* lines 58-63: deliver from s.remaining
ReadRemaining(s, n) ==
    LET c == CopyCount(n, Len(s.remaining))
    IN  [n |-> c, err |-> "nil", data |-> SubSeq(s.remaining, 1, c),
         pos |-> s.pos,
         remaining |-> SubSeq(s.remaining, c + 1, Len(s.remaining))]

\* ReadExhausted returning 0, nil: the io.EOF forgotten
ReadExhaustedNoEOF(s) ==
    [n |-> 0, err |-> "nil", data |-> << >>, pos |-> s.pos, remaining |-> s.remaining]

\* lines 65-67: return 0, io.EOF
ReadExhausted(s) ==
    [n |-> 0, err |-> "EOF", data |-> << >>, pos |-> s.pos, remaining |-> s.remaining]

\* a slice expression with a negative bound panics and the stream is left as it was
ReadPanic(s) ==
    [n |-> 0, err |-> "panic", data |-> << >>, pos |-> s.pos, remaining |-> s.remaining]

\* Advance with = for +=
AdvanceSet(s, len) == len

\* s.pos += int64(len(buf))
Advance(s, len) == s.pos + len

\* Carry as buf[n+1:]: the first kept byte lost
CarryDropsByte(work, n) == SubSeq(work, n + 2, Len(work))

\* lines 122-123: n = copy(origBuf, buf); s.remaining = buf[n:]
Carry(work, n) == SubSeq(work, n + 1, Len(work))

\* lines 69-129: compute fresh samples
ReadGenerate(s, n, fill) ==
    LET eof     == Truncates(s, n)
        bufLen  == IF eof THEN TruncLen(s) ELSE n
        scratch == NeedsScratch(bufLen)
        len     == IF scratch THEN ScratchLen(bufLen) ELSE bufLen
        work    == Generate(s, len, IF scratch THEN 0 ELSE fill)
        c       == IF scratch THEN CopyCount(bufLen, len) ELSE len
    IN  [n |-> c, err |-> IF eof THEN "EOF" ELSE "nil",
         data |-> SubSeq(work, 1, c),
         pos |-> Advance(s, len),
         remaining |-> IF scratch THEN Carry(work, c) ELSE s.remaining]

\* func (s *SineWave) Read(buf []byte) (int, error)
ReadResult(s, n, fill) ==
    IF HasRemaining(s) THEN ReadRemaining(s, n)
    ELSE IF Exhausted(s) THEN ReadExhausted(s)
    ELSE IF Truncates(s, n) /\ TruncLen(s) < 0 THEN ReadPanic(s)
    ELSE ReadGenerate(s, n, fill)

(***************************************************************************)
(* main's key-event loop and Run.  A key event is one of four kinds: a key *)
(* of noteFrequencies ("note"), any other key ("other"), ESC ("esc"), or   *)
(* an event with Err set ("err").  NoteCount++ and NoteCount-- are plain,  *)
(* unsynchronized accesses to a global int: each is a load followed by a   *)
(* store, and the steps of main and of the goroutines interleave freely.   *)
(* The goroutine that main starts for a key and the one Run starts in it   *)
(* are one note goroutine here: the outer one only waits for the inner.    *)
(***************************************************************************)
\* at most MaxEvents key events are received
MaxEvents == 3
\* at most MaxNotes notes play at the same time
MaxNotes == 2

Notes == 1..MaxNotes
KeyKinds == {"note", "other", "esc", "err"}

\* the process has ended: main returned on ESC or panicked
Ended == mainPc \in {"exited", "panicked"}

\* the state at program start: NoteCount = 0, no goroutine
NotesIdle ==
    /\ NoteCount = 0
    /\ mainPc = "wait"
    /\ event = "none"
    /\ mainTmp = 0
    /\ events = 0
    /\ gPc = [g \in Notes |-> "idle"]
    /\ gRead = [g \in Notes |-> 0]
    /\ gTmp = [g \in Notes |-> 0]
    /\ m = [g \in Notes |-> FALSE]
    /\ players = [g \in Notes |-> 0]
    /\ incs = 0
    /\ decs = 0


(***************************************************************************)
(* The state machine: one stream, built by NewSineWave, read by a consumer *)
(* that calls Read with buffers of its own choosing until the process ends.*)
(***************************************************************************)
Stream ==
    [sampleRate |-> sampleRate, freq |-> freq, length |-> length, pos |-> pos,
     channelCount |-> channelCount, format |-> format, remaining |-> remaining]

\* the buffer sizes the consumer uses on this stream
BufSizes ==
    (1..MaxBuf) \cup {n \in {length, length + 1} : n >= 1}

Init ==
    /\ sampleRate \in SampleRates
    /\ duration \in Durations
    /\ freq \in Freqs
    /\ channelCount \in ChannelCounts
    /\ format \in Formats
    /\ length = NewSineWaveLength(channelCount, format, sampleRate, duration)
    /\ pos = 0
    /\ remaining = << >>
    /\ out = << >>
    /\ lastBuf = 0
    /\ lastPos = 0
    /\ lastRem = 0
    /\ lastN = 0
    /\ lastErr = "none"
    /\ eofSeen = FALSE
    /\ eofBefore = FALSE
    /\ calls = 0
    /\ NotesIdle

\* one call of Read by the consumer
ReadCall(n, fill) ==
    /\ lastErr # "panic"
    /\ LET r == ReadResult(Stream, n, fill)
       IN  /\ pos' = r.pos
           /\ remaining' = r.remaining
           /\ out' = out \o r.data
           /\ lastN' = r.n
           /\ lastErr' = r.err
           /\ eofSeen' = (eofSeen \/ r.err = "EOF")
    /\ lastBuf' = n
    /\ lastPos' = pos
    /\ lastRem' = Len(remaining)
    /\ eofBefore' = eofSeen
    /\ UNCHANGED <<sampleRate, duration, freq, length, channelCount, format>>
    /\ UNCHANGED noteVars

Read(n, fill) == ReadCall(n, fill) /\ UNCHANGED calls

Next == \E n \in BufSizes, fill \in StaleBytes : Read(n, fill)

Spec == Init /\ [][Next]_vars

(***************************************************************************)
(* The same stream with the consumer's calls counted, for streams of at    *)
(* most MaxCounted bytes.                                                  *)
(***************************************************************************)
MaxCounted == 16

CountedInit == Init /\ length <= MaxCounted

CountedRead(n, fill) ==
    /\ ReadCall(n, fill)
    /\ calls' = IF eofSeen THEN calls ELSE calls + 1

CountedNext == \E n \in BufSizes, fill \in StaleBytes : CountedRead(n, fill)

CountedSpec == CountedInit /\ [][CountedNext]_vars

(***************************************************************************)
(* The actions of main and of the note goroutines.                         *)
(***************************************************************************)
\* case event := <-keysEvents, and the load of keys.NoteCount++
KeyEvent(k) ==
    /\ mainPc = "wait"
    /\ events < MaxEvents
    /\ k = "note" => \E g \in Notes : gPc[g] = "idle"
    /\ event' = k
    /\ events' = events + 1
    /\ mainTmp' = NoteCount
    /\ mainPc' = "store"
    /\ UNCHANGED streamVars
    /\ UNCHANGED <<NoteCount, gPc, gRead, gTmp, m, players, incs, decs>>

\* the store of keys.NoteCount++
MainStore ==
    /\ mainPc = "store"
    /\ NoteCount' = mainTmp + 1
    /\ incs' = incs + 1
    /\ mainPc' = "dispatch"
    /\ UNCHANGED streamVars
    /\ UNCHANGED <<event, mainTmp, events, gPc, gRead, gTmp, m, players, decs>>

\* if event.Err != nil { panic(event.Err) }
MainPanic ==
    /\ mainPc = "dispatch"
    /\ event = "err"
    /\ mainPc' = "panicked"
    /\ UNCHANGED streamVars
    /\ UNCHANGED <<NoteCount, event, mainTmp, events, gPc, gRead, gTmp, m, players,
                   incs, decs>>

\* if event.Key == keyboard.KeyEsc { return }
MainEsc ==
    /\ mainPc = "dispatch"
    /\ event = "esc"
    /\ mainPc' = "exited"
    /\ UNCHANGED streamVars
    /\ UNCHANGED <<NoteCount, event, mainTmp, events, gPc, gRead, gTmp, m, players,
                   incs, decs>>

\* go keys.Run(key, c, op) for a key of noteFrequencies: Run starts the note
StartNote(g) ==
    /\ mainPc = "dispatch"
    /\ event = "note"
    /\ gPc[g] = "idle"
    /\ gPc' = [gPc EXCEPT ![g] = "play"]
    /\ m' = [m EXCEPT ![g] = FALSE]
    /\ players' = [players EXCEPT ![g] = 0]
    /\ mainPc' = "wait"
    /\ UNCHANGED streamVars
    /\ UNCHANGED <<NoteCount, event, mainTmp, events, gRead, gTmp, incs, decs>>

\* go keys.Run(key, c, op) for any other key: Run returns nil at once
RunNoNote ==
    /\ mainPc = "dispatch"
    /\ event = "other"
    /\ mainPc' = "wait"
    /\ UNCHANGED streamVars
    /\ UNCHANGED <<NoteCount, event, mainTmp, events, gPc, gRead, gTmp, m, players,
                   incs, decs>>

\* p := play(...); initialVolume = 1 / float64(NoteCount)
ReadNoteCount(g) ==
    /\ ~Ended
    /\ gPc[g] = "play"
    /\ gRead' = [gRead EXCEPT ![g] = NoteCount]
    /\ gPc' = [gPc EXCEPT ![g] = "envelope"]
    /\ UNCHANGED streamVars
    /\ UNCHANGED <<NoteCount, mainPc, event, mainTmp, events, gTmp, m, players,
                   incs, decs>>

\* the SetVolume calls and the sleeps between them
Envelope(g) ==
    /\ ~Ended
    /\ gPc[g] = "envelope"
    /\ gPc' = [gPc EXCEPT ![g] = "lock"]
    /\ UNCHANGED streamVars
    /\ UNCHANGED <<NoteCount, mainPc, event, mainTmp, events, gRead, gTmp, m,
                   players, incs, decs>>

\* m.Lock(), on the mutex of this call of Run
Lock(g) ==
    /\ ~Ended
    /\ gPc[g] = "lock"
    /\ ~m[g]
    /\ m' = [m EXCEPT ![g] = TRUE]
    /\ gPc' = [gPc EXCEPT ![g] = "unlock"]
    /\ UNCHANGED streamVars
    /\ UNCHANGED <<NoteCount, mainPc, event, mainTmp, events, gRead, gTmp, players,
                   incs, decs>>

\* players = append(players, p); m.Unlock()
Unlock(g) ==
    /\ ~Ended
    /\ gPc[g] = "unlock"
    /\ players' = [players EXCEPT ![g] = players[g] + 1]
    /\ m' = [m EXCEPT ![g] = FALSE]
    /\ gPc' = [gPc EXCEPT ![g] = "load"]
    /\ UNCHANGED streamVars
    /\ UNCHANGED <<NoteCount, mainPc, event, mainTmp, events, gRead, gTmp, incs, decs>>

\* the load of NoteCount--
DecLoad(g) ==
    /\ ~Ended
    /\ gPc[g] = "load"
    /\ gTmp' = [gTmp EXCEPT ![g] = NoteCount]
    /\ gPc' = [gPc EXCEPT ![g] = "store"]
    /\ UNCHANGED streamVars
    /\ UNCHANGED <<NoteCount, mainPc, event, mainTmp, events, gRead, m, players,
                   incs, decs>>

\* the store of NoteCount--; then wg.Done() and Run returns
DecStore(g) ==
    /\ ~Ended
    /\ gPc[g] = "store"
    /\ NoteCount' = gTmp[g] - 1
    /\ decs' = decs + 1
    /\ gPc' = [gPc EXCEPT ![g] = "idle"]
    /\ gRead' = [gRead EXCEPT ![g] = 0]
    /\ UNCHANGED streamVars
    /\ UNCHANGED <<mainPc, event, mainTmp, events, gTmp, m, players, incs>>

\* the streams of the notes are read by the audio driver as in Spec; here one
\* stream stands as NewSineWave built it
NoteInit ==
    /\ Init
    /\ duration = 250
    /\ freq = 1
    /\ channelCount = 1
    /\ format = "s16le"

NoteNext ==
    \/ \E k \in KeyKinds : KeyEvent(k)
    \/ MainStore
    \/ MainPanic
    \/ MainEsc
    \/ \E g \in Notes : StartNote(g)
    \/ RunNoNote
    \/ \E g \in Notes : ReadNoteCount(g)
    \/ \E g \in Notes : Envelope(g)
    \/ \E g \in Notes : Lock(g)
    \/ \E g \in Notes : Unlock(g)
    \/ \E g \in Notes : DecLoad(g)
    \/ \E g \in Notes : DecStore(g)

NoteSpec == NoteInit /\ [][NoteNext]_vars

(***************************************************************************)
(* Properties.                                                             *)
(***************************************************************************)
\* the stream as NewSineWave returned it
FreshStream == [Stream EXCEPT !.pos = 0, !.remaining = << >>]

\* every buffer size a Read may be given in the current state, the empty buffer included
AnyBuf == BufSizes \cup {0}

\* byte k (from 0) of the stream as the format lays it out: byte k mod frameSize
\* of the encoding of frame k div frameSize, each channel slot holding the sample
ExpectedByte(k) ==
    LET num == formatByteLength(format) * channelCount
    IN  SampleBytes(format, Period(sampleRate, freq), k \div num)
            [((k % num) % formatByteLength(format)) + 1]

\* C1 (chunking invariance): once the Read calls have reached end-of-stream, the
\* bytes they delivered, concatenated, are the bytes a single Read on a fresh
\* identical stream delivers into a buffer of at least totalLength bytes.
ChunkingInvariance ==
    eofSeen =>
        \E n \in {length, length + 1}, fill \in StaleBytes :
            out = ReadResult(FreshStream, n, fill).data

\* C2 (strict position order): the k-th delivered byte is byte k mod frameSize of
\* the encoding of absolute frame k div frameSize.
StrictPositionOrder ==
    \A k \in 1..Len(out) : out[k] = ExpectedByte(k - 1)

\* C3 (idempotent terminal state): once a Read has returned io.EOF, a Read with
\* any buffer returns 0 bytes and io.EOF and leaves pos and remaining unchanged.
IdempotentTerminalState ==
    eofSeen =>
        \A n \in AnyBuf, fill \in StaleBytes :
            LET r == ReadResult(Stream, n, fill)
            IN  /\ r.n = 0
                /\ r.err = "EOF"
                /\ r.pos = pos
                /\ r.remaining = remaining

\* a Read called after an earlier Read had returned io.EOF has returned
ReadAfterEOF ==
    /\ eofBefore
    /\ lastErr = "EOF"
    /\ lastN = 0
    /\ Len(out) > 0

\* C4 as stated: whenever pos = length, a Read returns 0 bytes and io.EOF.
ExhaustedCursorEnds ==
    pos = length =>
        \A n \in BufSizes, fill \in StaleBytes :
            LET r == ReadResult(Stream, n, fill)
            IN  r.n = 0 /\ r.err = "EOF"

\* C4 (amended): whenever pos = length and remaining is empty, a Read returns
\* 0 bytes and io.EOF and leaves the stream in that same state, so that every
\* Read after it does the same; whenever pos = length and remaining is not
\* empty, a Read returns bytes of remaining and no io.EOF.
DrainedCursorEnds ==
    pos = length =>
        \A n \in BufSizes, fill \in StaleBytes :
            LET r == ReadResult(Stream, n, fill)
            IN  IF remaining = << >>
                THEN /\ r.n = 0
                     /\ r.err = "EOF"
                     /\ r.pos = length
                     /\ r.remaining = << >>
                ELSE /\ r.n = Min(n, Len(remaining))
                     /\ r.n >= 1
                     /\ r.err = "nil"
                     /\ r.data = SubSeq(remaining, 1, r.n)

\* the first io.EOF of a stream whose last bytes went out without one
DrainedThenEOF ==
    /\ length > 0
    /\ lastPos = length
    /\ lastRem = 0
    /\ lastErr = "EOF"
    /\ lastN = 0
    /\ ~eofBefore
    /\ Len(out) = length

\* a Read with a buffer of n bytes would compute fresh samples in this state
ComputesFresh(n) ==
    /\ remaining = << >>
    /\ pos # length
    /\ \A fill \in StaleBytes : ReadResult(Stream, n, fill).err # "panic"

\* C5 as stated: a Read that computes fresh samples and whose request,
\* min(len(buf), length - pos), reaches length returns io.EOF with its count.
FinalChunkSignalled ==
    \A n \in BufSizes, fill \in StaleBytes :
        (ComputesFresh(n) /\ pos + Min(n, length - pos) = length)
            => ReadResult(Stream, n, fill).err = "EOF"

\* C5 (amended): a Read that computes fresh samples returns io.EOF exactly when
\* its buffer is longer than the remaining length - pos bytes, and then with
\* those bytes; a buffer of exactly the remaining bytes is filled with no signal.
TruncatedChunkSignalled ==
    \A n \in BufSizes, fill \in StaleBytes :
        ComputesFresh(n) =>
            LET r == ReadResult(Stream, n, fill)
            IN  /\ (r.err = "EOF") <=> (n > length - pos)
                /\ (n >= length - pos) => (r.n = length - pos /\ r.pos = length)

\* a generating Read whose buffer was longer than what was left has returned
TruncatedFinalChunk ==
    /\ lastRem = 0
    /\ 0 < lastPos
    /\ lastPos < length
    /\ lastBuf > length - lastPos
    /\ lastN = length - lastPos
    /\ lastErr = "EOF"

\* C6: when the Read calls have reached end-of-stream, the byte counts they
\* returned add up to length.
TotalDelivered ==
    eofSeen => Len(out) = length

\* end-of-stream came with the last bytes of a stream read in several chunks
SeveralChunksToEOF ==
    /\ eofSeen
    /\ length >= 8
    /\ lastErr = "EOF"
    /\ 0 < lastN
    /\ lastN < length
    /\ Len(out) = length

\* C7: a duration <= 0 gives length 0, and the first Read returns 0 and io.EOF.
NonPositiveDurationEmpty ==
    duration <= 0 =>
        /\ length = 0
        /\ lastErr # "none" => (lastN = 0 /\ lastErr = "EOF")

\* C8 as stated: remaining holds at most frameSize - 1 bytes.
PendingBelowFrame ==
    Len(remaining) <= FrameSize(Stream) - 1

\* C8 (amended): remaining holds at most 3 bytes, one less than the 4-byte unit
\* the working length is rounded up to, whatever the frame size.
PendingBelowUnit ==
    Len(remaining) <= 3

\* three bytes are pending on a stream whose frames are shorter than that
ThreePendingSmallFrame ==
    /\ Len(remaining) = 3
    /\ FrameSize(Stream) < 3
    /\ lastErr = "nil"
    /\ lastN = 1

\* C9: 0 <= pos <= length in every state, and no Read decreases pos.
CursorWithinLength ==
    /\ 0 <= pos
    /\ pos <= length
    /\ lastPos <= pos

\* C10 (channel replication): in every whole frame of the delivered bytes, each
\* channel slot holds the bytes of the first slot.
ChannelReplication ==
    LET bps == formatByteLength(format)
        num == bps * channelCount
    IN  \A f \in 0..((Len(out) \div num) - 1) :
            \A ch \in 0..(channelCount - 1) :
                \A b \in 1..bps :
                    out[f * num + ch * bps + b] = out[f * num + b]

\* C11: length is a multiple of 4, and NewSineWave for 1 channel, s16le,
\* 44100 Hz and one second gives 88200.
LengthMultipleOf4 ==
    /\ length % 4 = 0
    /\ NewSineWaveLength(1, "s16le", 44100, Second) = 88200

\* NewSineWave has rounded a product that is no multiple of 4 down to a stream
\* that is not empty
RoundedDownLength ==
    /\ length > 0
    /\ GoDiv(channelCount * formatByteLength(format) * sampleRate * duration,
             Second) % 4 # 0
    /\ pos = 0
    /\ lastErr = "none"

\* C13 (pending priority): with remaining not empty, a Read copies
\* min(len(buf), len(remaining)) bytes from its front, keeps the rest in order,
\* leaves pos unchanged and returns the count with a nil error.
PendingPriority ==
    remaining # << >> =>
        \A n \in AnyBuf, fill \in StaleBytes :
            LET r == ReadResult(Stream, n, fill)
                c == Min(n, Len(remaining))
            IN  /\ r.n = c
                /\ r.data = SubSeq(remaining, 1, c)
                /\ r.remaining = SubSeq(remaining, c + 1, Len(remaining))
                /\ r.pos = pos
                /\ r.err = "nil"

\* a Read has drained remaining to empty at pos = length and returned no io.EOF
PendingDrainedAtEnd ==
    /\ lastRem > 0
    /\ lastN = lastRem
    /\ remaining = << >>
    /\ pos = length
    /\ lastErr = "nil"
    /\ ~eofSeen

\* C14 (whole-frame generation): in a Read that computes fresh samples, the
\* working length, by which pos advances, is a whole number of frames.
WholeFrameGeneration ==
    \A n \in BufSizes, fill \in StaleBytes :
        ComputesFresh(n) =>
            (ReadResult(Stream, n, fill).pos - pos) % FrameSize(Stream) = 0

\* the working length of a Read with a buffer of n bytes: the request
\* truncated to length - pos, rounded up to a multiple of 4
WorkingLength(n) ==
    LET req == Min(n, length - pos)
    IN  IF req % 4 = 0 THEN req ELSE req + 4 - (req % 4)

\* C15 (byte conservation): pos is the number of bytes delivered plus the
\* number held in remaining; a Read that computes fresh samples advances pos by
\* the working length, returns min(working length, len(buf)) bytes and keeps
\* exactly the other bytes in remaining.
ByteConservation ==
    /\ pos = Len(out) + Len(remaining)
    /\ \A n \in BufSizes, fill \in StaleBytes :
            ComputesFresh(n) =>
                LET r == ReadResult(Stream, n, fill)
                    g == WorkingLength(n)
                IN  /\ r.pos = pos + g
                    /\ r.n = Min(g, n)
                    /\ Len(r.remaining) = g - r.n

\* a later generating Read has left bytes in remaining
GeneratedWithCarry ==
    /\ lastRem = 0
    /\ lastPos > 0
    /\ lastErr = "nil"
    /\ Len(remaining) > 0
    /\ pos = lastPos + lastN + Len(remaining)

\* C19: a Read that returns io.EOF leaves remaining empty and pos = length.
EOFMeansDrained ==
    /\ lastErr = "EOF" => (remaining = << >> /\ pos = length)
    /\ \A n \in AnyBuf, fill \in StaleBytes :
            LET r == ReadResult(Stream, n, fill)
            IN  r.err = "EOF" => (r.remaining = << >> /\ r.pos = length)

\* io.EOF has come with the last bytes of a stream that had bytes pending before
EOFWithLastBytes ==
    /\ lastErr = "EOF"
    /\ lastN > 0
    /\ lastPos > 0
    /\ Len(out) > lastPos
    /\ ~eofBefore

\* C20: pos is a multiple of 4 and remaining holds at most 3 bytes; so the
\* length - pos bytes a request is truncated to are a multiple of 4, and a
\* truncated Read returns all of them and keeps nothing in remaining.
CursorAligned ==
    /\ pos % 4 = 0
    /\ Len(remaining) <= 3
    /\ (length - pos) % 4 = 0
    /\ \A n \in BufSizes, fill \in StaleBytes :
            (ComputesFresh(n) /\ n > length - pos) =>
                LET r == ReadResult(Stream, n, fill)
                IN  r.n = length - pos /\ r.remaining = << >>

\* a truncated Read has returned on a stream whose frame size does not divide 4
TruncatedOddFrame ==
    /\ 4 % FrameSize(Stream) # 0
    /\ lastRem = 0
    /\ lastPos > 0
    /\ lastBuf > length - lastPos
    /\ lastN = length - lastPos
    /\ lastN > 0
    /\ remaining = << >>

\* C18 (progress and termination): on a stream of length >= 0 that has not
\* returned io.EOF, a Read with a buffer of at least 1 byte returns at least 1
\* byte or io.EOF; and io.EOF has been returned once length + 1 calls are made.
ReadProgress ==
    length >= 0 =>
        /\ ~eofSeen =>
                \A n \in BufSizes, fill \in StaleBytes :
                    LET r == ReadResult(Stream, n, fill)
                    IN  r.n >= 1 \/ r.err = "EOF"
        /\ calls >= length + 1 => eofSeen

\* the slowest consumer: every byte of the stream took a call of its own, and
\* call length + 1 returned the first io.EOF
EOFAtLastAllowedCall ==
    /\ length >= 4
    /\ calls = length + 1
    /\ lastErr = "EOF"
    /\ ~eofBefore

(***************************************************************************)
(* NoteCount, under NoteSpec.                                              *)
(***************************************************************************)
\* main is between the load and the store of NoteCount++
MainUpdating == mainPc = "store"
\* the notes whose goroutine is between the load and the store of NoteCount--
Decrementing == {g \in Notes : gPc[g] = "store"}
\* the notes whose goroutine has read NoteCount for initialVolume
HasRead == {g \in Notes : gPc[g] \in {"envelope", "lock", "unlock", "load", "store"}}
\* the notes that have started and not finished
ActiveNotes == {g \in Notes : gPc[g] # "idle"}
\* no update of NoteCount is under way
Quiescent == ~MainUpdating /\ Decrementing = {}

\* C12: the updates of NoteCount exclude each other (at most one of main and
\* the goroutines is between its load and its store), and no update is lost:
\* whenever none is under way, NoteCount is the number of increments minus
\* the number of decrements.
NoteCountProtected ==
    /\ Cardinality(Decrementing) + (IF MainUpdating THEN 1 ELSE 0) <= 1
    /\ Quiescent => NoteCount = incs - decs

\* C16: while main waits for the next key and no update of NoteCount is under
\* way or was lost, NoteCount is the number of notes that have started and
\* not finished; in particular it is 0 when no note plays.
NoteCountIsActiveNotes ==
    (mainPc = "wait" /\ Quiescent /\ NoteCount = incs - decs)
        => NoteCount = Cardinality(ActiveNotes)

\* C17: the value of NoteCount a note goroutine read for
\* initialVolume = 1 / float64(NoteCount) is at least 1.
ReadSeesPositive == \A g \in HasRead : gRead[g] >= 1

====
